---- MODULE Spec2Model ----
(***************************************************************************)
(* Identifier resolution of PDF-Bulk-Assessment (sciscraper):              *)
(*   src/src/doi_regex.py   the pattern library and Text Search            *)
(*   src/src/doifrompdf.py  the resolution cascade and the validator       *)
(* Strings are sequences of one-character strings; a Python value is a     *)
(* record with a tag; a call's outcome is a record saying whether it       *)
(* returned or raised, and which effects (validator lookups, web searches) *)
(* it had on the way.                                                      *)
(***************************************************************************)
EXTENDS Integers, Sequences, FiniteSets, TLC

(***************************************************************************)
(* Characters and character classes of Python's re module.                 *)
(***************************************************************************)
Digit == {"0", "1", "2", "3", "4", "5", "6", "7", "8", "9"}

LowerSeq == <<"a", "b", "c", "d", "e", "f", "g", "h", "i", "j", "k", "l", "m",
              "n", "o", "p", "q", "r", "s", "t", "u", "v", "w", "x", "y", "z">>

UpperSeq == <<"A", "B", "C", "D", "E", "F", "G", "H", "I", "J", "K", "L", "M",
              "N", "O", "P", "Q", "R", "S", "T", "U", "V", "W", "X", "Y", "Z">>

Lower == {LowerSeq[i] : i \in 1..26}

Upper == {UpperSeq[i] : i \in 1..26}

\* \s on a str pattern (the ASCII members TLA+ can write)
Whitespace == {" ", "\t", "\n", "\r", "\f"}

Punct == {"!", "\"", "#", "$", "%", "&", "'", "(", ")", "*", "+", ",", "-", ".",
          "/", ":", ";", "<", "=", ">", "?", "@", "[", "\\", "]", "^", "_", "{",
          "|", "}", "~"}

\* the class [ -~] (without the grave accent, which a TLA+ string cannot hold)
Printable == {" "} \cup Digit \cup Lower \cup Upper \cup Punct

\* str.casefold() / str.lower() on ASCII text
FoldChar(c) ==
  IF c \in Upper THEN LowerSeq[CHOOSE i \in 1..26 : UpperSeq[i] = c] ELSE c

casefold(s) == [i \in 1..Len(s) |-> FoldChar(s[i])]

\* s[b:e] with 1-based inclusive start b and exclusive end e
Slice(s, b, e) == [i \in 1..(e - b) |-> s[b + i - 1]]

(***************************************************************************)
(* Regular expressions as trees, matched the way re matches them: by       *)
(* backtracking, greedy repetition first, alternatives left to right.      *)
(***************************************************************************)
Set(S) == [t |-> "set", s |-> S]

Ch(c) == [t |-> "set", s |-> {c}]

Cat(rs) == [t |-> "cat", rs |-> rs]

Alt(a, b) == [t |-> "alt", a |-> a, b |-> b]

\* r{lo,hi}, greedy; hi = -1 is "no upper limit"
Rep(r, lo, hi) == [t |-> "rep", r |-> r, lo |-> lo, hi |-> hi]

Opt(r) == Rep(r, 0, 1)

Star(r) == Rep(r, 0, -1)

Plus(r) == Rep(r, 1, -1)

\* a capturing group, numbered ("1") or named ("suffix")
Grp(n, r) == [t |-> "grp", n |-> n, r |-> r]

\* ^ and $; m is re.MULTILINE
Bol(m) == [t |-> "bol", m |-> m]

Eol(m) == [t |-> "eol", m |-> m]

NoMatch == [ok |-> FALSE, b |-> 0, e |-> 0, c |-> <<>>]

AtBol(s, i, m) == i = 1 \/ (m /\ i > 1 /\ s[i - 1] = "\n")

AtEol(s, i, m) ==
  \/ i = Len(s) + 1
  \/ i = Len(s) /\ s[i] = "\n"
  \/ m /\ i <= Len(s) /\ s[i] = "\n"

\* The longest run of characters of class S in s from position i, at most hi
\* of them (hi = -1: no limit)
Run(s, i, S, hi) ==
  LET most == IF hi >= 0 /\ hi < Len(s) - i + 1 THEN hi ELSE Len(s) - i + 1
      runs == {k \in 0..most : \A j \in 0..(k - 1) : s[i + j] \in S}
  IN CHOOSE k \in runs : \A j \in runs : j <= k

\* Match the regexes of `todo`, one after the other, in s from position i;
\* caps are the groups closed so far, as <<name, begin, end>>.  A greedy
\* repetition of a character class takes the longest run after which the rest
\* matches, which is where backtracking from the longest run stops.
RECURSIVE Match(_, _, _, _)
Match(todo, s, i, caps) ==
  IF Len(todo) = 0 THEN [ok |-> TRUE, b |-> 0, e |-> i, c |-> caps]
  ELSE
    LET r == Head(todo)
        rest == Tail(todo)
    IN CASE r.t = "set" ->
              IF i <= Len(s) /\ s[i] \in r.s
              THEN Match(rest, s, i + 1, caps) ELSE NoMatch
         [] r.t = "cat" -> Match(r.rs \o rest, s, i, caps)
         [] r.t = "alt" ->
              LET first == Match(<<r.a>> \o rest, s, i, caps)
              IN IF first.ok THEN first ELSE Match(<<r.b>> \o rest, s, i, caps)
         [] r.t = "rep" /\ r.r.t = "set" ->
              LET good == {k \in r.lo..Run(s, i, r.r.s, r.hi) :
                             Match(rest, s, i + k, caps).ok}
              IN IF good = {} THEN NoMatch
                 ELSE Match(rest, s, i + (CHOOSE k \in good : \A j \in good : j <= k),
                            caps)
         [] r.t = "rep" /\ r.r.t # "set" ->
              LET more == IF r.hi = 0 THEN NoMatch
                          ELSE Match(<<r.r, Rep(r.r, IF r.lo > 0 THEN r.lo - 1 ELSE 0,
                                                IF r.hi > 0 THEN r.hi - 1 ELSE r.hi)>>
                                       \o rest, s, i, caps)
              IN IF more.ok THEN more
                 ELSE IF r.lo = 0 THEN Match(rest, s, i, caps) ELSE NoMatch
         [] r.t = "grp" ->
              Match(<<r.r, [t |-> "end", n |-> r.n, b |-> i]>> \o rest, s, i, caps)
         [] r.t = "end" -> Match(rest, s, i, Append(caps, <<r.n, r.b, i>>))
         [] r.t = "bol" -> IF AtBol(s, i, r.m) THEN Match(rest, s, i, caps) ELSE NoMatch
         [] r.t = "eol" -> IF AtEol(s, i, r.m) THEN Match(rest, s, i, caps) ELSE NoMatch

\* Pattern.search(s, pos): the leftmost match starting at or after `from`
SearchFrom(rx, s, from) ==
  LET starts == {b \in from..(Len(s) + 1) : Match(<<rx>>, s, b, <<>>).ok}
      first == CHOOSE b \in starts : \A j \in starts : b <= j
  IN IF starts = {} THEN NoMatch
     ELSE [Match(<<rx>>, s, first, <<>>) EXCEPT !.b = first]

Search(rx, s) == SearchFrom(rx, s, 1)

\* Whether group n took part in match m, and the text it captured
HasGroup(m, n) == \E k \in 1..Len(m.c) : m.c[k][1] = n

Group(m, s, n) ==
  LET k == CHOOSE k \in 1..Len(m.c) :
             m.c[k][1] = n /\ \A j \in (k + 1)..Len(m.c) : m.c[j][1] # n
  IN Slice(s, m.c[k][2], m.c[k][3])

\* Match.group(0)
Group0(m, s) == Slice(s, m.b, m.e)

\* Pattern.findall(s) of a pattern with one group: the group of every match
RECURSIVE FindallFrom(_, _, _)
FindallFrom(rx, s, from) ==
  LET m == SearchFrom(rx, s, from)
  IN IF ~m.ok THEN <<>>
     ELSE <<IF HasGroup(m, "1") THEN Group(m, s, "1") ELSE <<>>>>
          \o FindallFrom(rx, s, IF m.e > m.b THEN m.e ELSE m.e + 1)

Findall(rx, s) == FindallFrom(rx, s, 1)

(***************************************************************************)
(* Python values and call outcomes.                                        *)
(***************************************************************************)
\* The value of a validation_info field: None, True or a str
Info(tag, str) == [tag |-> tag, str |-> str]

PyNone ==
  [tag |-> "None", str |-> <<>>, identifier |-> <<>>, identifier_type |-> "",
   validation_info |-> Info("", <<>>)]

PyStr(s) ==
  [tag |-> "str", str |-> s, identifier |-> <<>>, identifier_type |-> "",
   validation_info |-> Info("", <<>>)]

\* scraperesults.DOIFromPDFResult(identifier, identifier_type, validation_info)
DOIFromPDFResult(identifier, identifier_type, validation_info) ==
  [tag |-> "DOIFromPDFResult", str |-> <<>>, identifier |-> identifier,
   identifier_type |-> identifier_type, validation_info |-> validation_info]

\* the dataclass default of validation_info
DefaultValidation == Info("bool", <<>>)

\* bool(value): None and "" are falsy; a dataclass instance is always truthy
Truthy(v) ==
  CASE v.tag = "None" -> FALSE
    [] v.tag = "str" -> Len(v.str) > 0
    [] OTHER -> TRUE

Ret(v, eff) == [k |-> "ret", v |-> v, exc |-> "", eff |-> eff]

Raise(exc, eff) == [k |-> "raise", v |-> PyNone, exc |-> exc, eff |-> eff]

\* the effects a call had: validator lookups and web searches
Validated(id_type, identifier, ok) ==
  [e |-> "validate", id_type |-> id_type, text |-> identifier, ok |-> ok, stop |-> 0]

Searched(query, stop) ==
  [e |-> "search", id_type |-> "", text |-> query, ok |-> TRUE, stop |-> stop]

(***************************************************************************)
(* doi_regex.py: the pattern library.                                      *)
(***************************************************************************)
Lit(s) == Cat([i \in 1..Len(s) |-> Ch(s[i])])

DoiSuffixClass == {"-", ".", "_", ";", "(", ")", "/", ":"} \cup Lower \cup Digit

\* (?:[\s\n\"<]|$)
DoiStop == Alt(Set(Whitespace \cup {"\"", "<"}), Eol(FALSE))

DOI_PATTERNS ==
  << Cat(<<Lit(<<"d", "o", "i">>), Rep(Set(Whitespace \cup {".", ":"}), 0, 2),
           Grp("1", Cat(<<Lit(<<"1", "0", ".">>), Rep(Set(Digit), 4, 4),
                          Plus(Set(Digit \cup {":", ".", "-", "/"} \cup Lower))>>)),
           DoiStop>>),
     Cat(<<Grp("1", Cat(<<Lit(<<"1", "0", ".">>), Rep(Set(Digit), 4, 4),
                          Plus(Set(Digit \cup {":", ".", "-", "/"} \cup Lower))>>)),
           DoiStop>>),
     Cat(<<Grp("1", Cat(<<Lit(<<"1", "0", ".">>), Rep(Set(Digit), 4, 4),
                          Plus(Set({":", ".", "-", "/"} \cup Lower)),
                          Plus(Set({":", ".", "-"} \cup Digit))>>)),
           Alt(Set(Whitespace \cup Lower \cup {"\"", "<"}), Eol(FALSE))>>),
     Cat(<<Lit(<<"h", "t", "t", "p">>), Opt(Ch("s")), Lit(<<":", "/", "/">>),
           Star(Set(Printable)), Lit(<<"d", "o", "i">>), Star(Set(Printable)), Ch("/"),
           Grp("1", Cat(<<Lit(<<"1", "0", ".">>), Rep(Set(Digit), 4, 9), Ch("/"),
                          Plus(Set(DoiSuffixClass))>>)),
           DoiStop>>),
     Cat(<<Bol(FALSE),
           Grp("1", Cat(<<Lit(<<"1", "0", ".">>), Rep(Set(Digit), 4, 9), Ch("/"),
                          Plus(Set(DoiSuffixClass))>>)),
           Eol(FALSE)>>) >>

\* (\d{4}\.\d+)(?:v\d+)?
ArxivCore ==
  Cat(<<Grp("1", Cat(<<Rep(Set(Digit), 4, 4), Ch("."), Plus(Set(Digit))>>)),
        Opt(Cat(<<Ch("v"), Plus(Set(Digit))>>))>>)

ARXIV_PATTERNS ==
  << Cat(<<Bol(FALSE), ArxivCore, Eol(FALSE)>>),
     Cat(<<Lit(<<"a", "r", "x", "i", "v">>), Star(Set(Whitespace)), Ch(":"),
           Star(Set(Whitespace)), ArxivCore, DoiStop>>),
     Cat(<<ArxivCore, Lit(<<".", "p", "d", "f">>)>>),
     Cat(<<Bol(FALSE), ArxivCore, Eol(FALSE)>>) >>

\* re.VERBOSE | re.MULTILINE
DOI_REGEX ==
  Cat(<<Opt(Grp("marker", Cat(<<Lit(<<"d", "o", "i">>),
                               Rep(Set({":", "/"} \cup Whitespace), 0, 3)>>))),
        Grp("prefix", Cat(<<Grp("namespace", Lit(<<"1", "0">>)), Ch("."),
                            Grp("registrant", Rep(Set(Digit), 2, 9))>>)),
        Grp("sep", Set({":", "-", "/", "]"} \cup Whitespace)),
        Grp("suffix", Cat(<<Plus(Set(DoiSuffixClass)), Set(Lower \cup Digit)>>)),
        Grp("trailing", Alt(Set(Whitespace \cup {"\"", "<", "."}), Eol(TRUE)))>>)

\* re.VERBOSE | re.IGNORECASE; the text it is applied to is case-folded
ARXIV_REGEX ==
  Cat(<<Opt(Grp("marker", Cat(<<Lit(<<"a", "r", "x", "i", "v">>),
                               Rep(Set({":", "/"} \cup Whitespace), 0, 3)>>))),
        Grp("identifier", Cat(<<Rep(Set(Digit), 4, 4), Ch("."), Plus(Set(Digit))>>)),
        Opt(Cat(<<Ch("v"), Plus(Set(Digit))>>)),
        Opt(Grp("trailing", Lit(<<".", "p", "d", "f">>))),
        Eol(FALSE)>>)

\* the keys of IDENTIFIER_PATTERNS in insertion order, and its values
IDENTIFIER_KINDS == <<"doi", "arxiv">>

IDENTIFIER_PATTERNS(kind) == IF kind = "doi" THEN DOI_PATTERNS ELSE ARXIV_PATTERNS

\* Match.groupdict(): every named group, None for one that took no part
groupdict(m, s, names) ==
  [n \in names |-> IF HasGroup(m, n) THEN PyStr(Group(m, s, n)) ELSE PyNone]

\* f"{value}" of a str or of None
Format(v) == IF v.tag = "None" THEN <<"N", "o", "n", "e">> ELSE v.str

format_doi(meta) ==
  IF {"registrant", "suffix"} \subseteq DOMAIN meta
  THEN <<"1", "0", ".">> \o Format(meta["registrant"]) \o <<"/">> \o Format(meta["suffix"])
  ELSE <<>>

\* the arXiv branch of standardize_identifier
format_arxiv(meta) ==
  IF {"identifier"} \subseteq DOMAIN meta
  THEN Format(meta["identifier"]) \o Format(meta["trailing"])
  ELSE <<>>

\* standardize_identifier once the regex has run: next(regex.finditer(text), {})
\* is a Match or the dict {}, and {} has no groupdict()
standardize_match(m, text, pattern_key) ==
  IF ~m.ok THEN Raise("AttributeError", <<>>)
  ELSE IF pattern_key = "doi"
  THEN Ret(PyStr(format_doi(groupdict(m, text,
             {"marker", "prefix", "namespace", "registrant", "sep", "suffix",
              "trailing"}))), <<>>)
  ELSE Ret(PyStr(format_arxiv(groupdict(m, text, {"marker", "identifier", "trailing"}))),
           <<>>)

standardize_identifier(identifier, pattern_key) ==
  standardize_match(Search(IF pattern_key = "doi" THEN DOI_REGEX ELSE ARXIV_REGEX,
                           casefold(identifier)),
                    casefold(identifier), pattern_key)

\* this_match.group(group_index)
group_of(this_match, text, pattern_key) ==
  IF pattern_key = "arxiv" THEN Group0(this_match, text) ELSE Group(this_match, text, "1")

\* find_identifier: the first pattern that matches with a non-empty group
RECURSIVE find_identifier_from(_, _, _, _)
RECURSIVE find_identifier_try(_, _, _, _, _)
find_identifier_try(text, patterns, pattern_key, k, this_match) ==
  IF ~this_match.ok THEN find_identifier_from(text, patterns, pattern_key, k + 1)
  ELSE IF Len(group_of(this_match, text, pattern_key)) = 0
  THEN find_identifier_from(text, patterns, pattern_key, k + 1)
  ELSE standardize_identifier(group_of(this_match, text, pattern_key), pattern_key)

find_identifier_from(text, patterns, pattern_key, k) ==
  IF k > Len(patterns) THEN Ret(PyStr(<<>>), <<>>)
  ELSE find_identifier_try(text, patterns, pattern_key, k, Search(patterns[k], text))

find_identifier(text, patterns, pattern_key) ==
  find_identifier_from(text, patterns, pattern_key, 1)

\* extract_identifier: the first kind for which find_identifier is non-empty
RECURSIVE extract_identifier_from(_, _)
RECURSIVE extract_identifier_try(_, _, _)
extract_identifier_try(text_lower, k, identifier) ==
  IF identifier.k = "raise" THEN identifier
  ELSE IF ~Truthy(identifier.v) THEN extract_identifier_from(text_lower, k + 1)
  ELSE identifier

extract_identifier_from(text_lower, k) ==
  IF k > Len(IDENTIFIER_KINDS) THEN Ret(PyStr(<<>>), <<>>)
  ELSE extract_identifier_try(text_lower, k,
         find_identifier(text_lower, IDENTIFIER_PATTERNS(IDENTIFIER_KINDS[k]),
                         IDENTIFIER_KINDS[k]))

extract_identifier(text) == extract_identifier_from(casefold(text), 1)

(***************************************************************************)
(* doifrompdf.py: the validator.  `net` is what the network does during    *)
(* the call: "ok", "unreachable" (the DOI host refuses the connection, the *)
(* arXiv feed comes back without entries) or "http_error" (the DOI host    *)
(* answers with an error status, the feed without entries).                *)
(***************************************************************************)
\* response.text of the DOI service, str(entries[0]) of the arXiv feed
Payload(id_type) == IF id_type = "doi" THEN <<"{", "}">> ELSE <<"{", ":", "}">>

validate_doi(identifier, net) ==
  CASE net = "unreachable" -> Raise("ConnectionError", <<Validated("doi", identifier, FALSE)>>)
    [] net = "http_error" -> Raise("HTTPError", <<Validated("doi", identifier, FALSE)>>)
    [] OTHER -> Ret(PyStr(Payload("doi")), <<Validated("doi", identifier, TRUE)>>)

validate_arxiv(identifier, net) ==
  IF net = "ok"
  THEN Ret(PyStr(Payload("arxiv")), <<Validated("arxiv", identifier, TRUE)>>)
  ELSE Raise("IndexError", <<Validated("arxiv", identifier, FALSE)>>)

\* (variant: no try/except around the lookup)
except_nothing(lookup) == lookup

\* except Exception: log, return None
except_Exception(lookup) == IF lookup.k = "raise" THEN Ret(PyNone, lookup.eff) ELSE lookup

validate_identifier(identifier, id_type, net) ==
  except_Exception(IF id_type = "arxiv" THEN validate_arxiv(identifier, net)
                   ELSE validate_doi(identifier, net))

(***************************************************************************)
(* doifrompdf.py: the strategies.  A metadata mapping is the sequence of   *)
(* its <<key, value>> items in insertion order.                            *)
(***************************************************************************)
\* config.priority_keys (src/config.py is not part of the sources; these are
\* the keys the tests of find_identifier_in_metadata rely on)
priority_keys == <<"doi", "pdf2doi_identifier", "arXiv", "Title">>

HasKey(md, key) == \E i \in 1..Len(md) : md[i][1] = key

\* metadata.get(key, default)
Get(md, key, default) ==
  IF HasKey(md, key)
  THEN PyStr(md[CHOOSE i \in 1..Len(md) : md[i][1] = key][2])
  ELSE default

RECURSIVE find_identifier_in_metadata_from(_, _)
find_identifier_in_metadata_from(md, k) ==
  IF k > Len(priority_keys) THEN Ret(PyNone, <<>>)
  ELSE LET key == priority_keys[k]
           initial_result == Get(md, key, PyNone)
       IN IF ~Truthy(initial_result) THEN find_identifier_in_metadata_from(md, k + 1)
          ELSE Ret(DOIFromPDFResult(initial_result.str, key, DefaultValidation), <<>>)

\* (variant: the first item of the mapping whose key is a priority key wins)
RECURSIVE find_identifier_in_metadata_by_item(_, _)
find_identifier_in_metadata_by_item(md, i) ==
  IF i > Len(md) THEN Ret(PyNone, <<>>)
  ELSE IF (\E k \in 1..Len(priority_keys) : priority_keys[k] = md[i][1]) /\ Len(md[i][2]) > 0
  THEN Ret(DOIFromPDFResult(md[i][2], md[i][1], DefaultValidation), <<>>)
  ELSE find_identifier_in_metadata_by_item(md, i + 1)

find_identifier_in_metadata_in_mapping_order(md) ==
  find_identifier_in_metadata_by_item(md, 1)

find_identifier_in_metadata(md) == find_identifier_in_metadata_from(md, 1)

\* `for sub_pattern in pattern: matches = sub_pattern.findall(text)` leaves the
\* matches of the last sub-pattern
matches_after_loop(pattern, text) == Findall(pattern[Len(pattern)], text)

\* The loop over IDENTIFIER_PATTERNS.items() from kind k on; identifier, id_type
\* and validation are the locals the earlier iterations left.
RECURSIVE find_identifier_in_text_from(_, _, _, _, _, _, _)
RECURSIVE find_identifier_in_text_found(_, _, _, _, _, _, _)
\* the rest of one iteration, from `validation = validate_identifier(...)` on
find_identifier_in_text_found(text, net, k, this_type, checked, extracted, eff) ==
  IF checked.k = "raise" THEN Raise(checked.exc, eff \o checked.eff)
  ELSE IF extracted.k = "raise" THEN Raise(extracted.exc, eff \o checked.eff)
  ELSE find_identifier_in_text_from(text, net, k + 1, extracted.v.str, this_type,
                                    Info(checked.v.tag, checked.v.str), eff \o checked.eff)

\* one iteration, from `identifier = matches[0]` on
find_identifier_in_text_step(text, net, k, this_type, matches, eff) ==
  IF Len(matches) = 0 THEN Raise("IndexError", eff)
  ELSE find_identifier_in_text_found(
         text, net, k, this_type, validate_identifier(matches[1], this_type, net),
         IF this_type = "doi" THEN extract_identifier(matches[1])
         ELSE Ret(PyStr(matches[1]), <<>>),
         eff)

find_identifier_in_text_from(text, net, k, identifier, id_type, validation, eff) ==
  IF k > Len(IDENTIFIER_KINDS)
  THEN Ret(DOIFromPDFResult(identifier, id_type, validation), eff)
  ELSE find_identifier_in_text_step(
         text, net, k, IDENTIFIER_KINDS[k],
         matches_after_loop(IDENTIFIER_PATTERNS(IDENTIFIER_KINDS[k]), text), eff)

find_identifier_in_text(text, net) ==
  find_identifier_in_text_from(text, net, 1, <<>>, "", Info("", <<>>), <<>>)

\* `if not (result and result.identifier): continue`
Usable(result) == Truthy(result) /\ Len(result.identifier) > 0

\* values_to_search of find_identifier_in_pdf_info
values_to_search(md) ==
  LET keep == {i \in 1..Len(md) : md[i][1] # "/wps-journaldoi"}
      nth(n) == CHOOSE i \in keep : Cardinality({j \in keep : j <= i}) = n
  IN [n \in 1..Cardinality(keep) |-> md[nth(n)][2]]

\* The loop of find_identifier_in_pdf_info and of find_identifier_in_google_search
\* over the texts to search, from text k on; `after` is what follows the loop.
RECURSIVE first_usable(_, _, _, _, _)
RECURSIVE first_usable_try(_, _, _, _, _, _)
first_usable_try(texts, net, k, eff, after, result) ==
  IF result.k = "raise" THEN Raise(result.exc, eff \o result.eff)
  ELSE IF ~Usable(result.v) THEN first_usable(texts, net, k + 1, eff \o result.eff, after)
  ELSE Ret(result.v, eff \o result.eff)

first_usable(texts, net, k, eff, after) ==
  IF k > Len(texts)
  THEN IF after.k = "raise" THEN Raise(after.exc, eff) ELSE Ret(after.v, eff)
  ELSE first_usable_try(texts, net, k, eff, after, find_identifier_in_text(texts[k], net))

\* After the loop find_identifier_in_pdf_info logs the loop variable `value`,
\* which is unbound when there was no value to search, and returns None.
pdf_info_after_loop(values) ==
  IF Len(values) = 0 THEN Raise("UnboundLocalError", <<>>) ELSE Ret(PyNone, <<>>)

find_identifier_in_pdf_info(md, net) ==
  first_usable(values_to_search(md), net, 1, <<>>, pdf_info_after_loop(values_to_search(md)))

\* googlesearch.search(query, stop=num_results): the first `stop` result URLs
search(query, stop, urls) ==
  Slice(urls, 1, (IF Len(urls) < stop THEN Len(urls) ELSE stop) + 1)

find_identifier_in_google_search(query, num_results, net, urls) ==
  first_usable(search(query, num_results, urls), net, 1,
               <<Searched(query, num_results)>>, Ret(PyNone, <<>>))

\* the defaults of find_identifier_by_googling_first_n_characters_in_pdf
num_results_default == 3

num_characters_default == 50

\* text.strip() is empty
Blank(text) == \A i \in 1..Len(text) : text[i] \in Whitespace

find_identifier_by_googling_first_n_characters_in_pdf(text, num_results, num_characters, net, urls) ==
  IF Blank(text) THEN Ret(PyNone, <<>>)
  ELSE find_identifier_in_google_search(
         casefold(Slice(text, 1, (IF Len(text) < num_characters THEN Len(text)
                                  ELSE num_characters) + 1)),
         num_results, net, urls)

(***************************************************************************)
(* doifrompdf.py: the resolution cascade.                                  *)
(***************************************************************************)
\* The items of a dict literal: a repeated key keeps its first position and
\* takes the last value.
RECURSIVE DictLiteral(_)
DictLiteral(items) ==
  IF Len(items) = 0 THEN <<>>
  ELSE LET before == DictLiteral(SubSeq(items, 1, Len(items) - 1))
           item == items[Len(items)]
       IN IF \E i \in 1..Len(before) : before[i][1] = item[1]
          THEN [i \in 1..Len(before) |->
                  IF before[i][1] = item[1] THEN item ELSE before[i]]
          ELSE Append(before, item)

\* handlers of doi_from_pdf: each function with the names of its arguments
handlers ==
  DictLiteral(<< <<"find_identifier_in_metadata", <<"metadata">> >>,
                 <<"find_identifier_in_pdf_info", <<"metadata">> >>,
                 <<"find_identifier_in_text", <<"title", "IDENTIFIER_PATTERNS", "True">> >>,
                 <<"find_identifier_in_text", <<"preprint", "IDENTIFIER_PATTERNS">> >>,
                 <<"find_identifier_by_googling_first_n_characters_in_pdf",
                   <<"preprint">> >> >>)

\* title of doi_from_pdf: metadata.get("Title", Path(file).stem)
TitleOf(md, file_stem) == Get(md, "Title", PyStr(file_stem)).str

\* handler(*args) for one item of handlers
Call(handler, md, file_stem, text, net, urls) ==
  LET name == handler[1]
      args == handler[2]
  IN CASE name = "find_identifier_in_metadata" -> find_identifier_in_metadata(md)
       [] name = "find_identifier_in_pdf_info" -> find_identifier_in_pdf_info(md, net)
       [] name = "find_identifier_in_text" ->
            IF Len(args) > 2 THEN Raise("TypeError", <<>>)
            ELSE find_identifier_in_text(
                   IF args[1] = "title" THEN TitleOf(md, file_stem) ELSE text, net)
       [] OTHER ->
            find_identifier_by_googling_first_n_characters_in_pdf(
              text, num_results_default, num_characters_default, net, urls)

\* (variant: a list comprehension, which runs every handler before filter sees one)
next_ready_eager(done) ==
  Len(done) = 4 /\ \E i \in 1..Len(done) : Truthy(done[i].o.v)

\* filter(None, handler_comprehension) over a generator: next() has its value
\* as soon as the handler invoked last returned something truthy
next_ready(done) == Len(done) > 0 /\ Truthy(done[Len(done)].o.v)

(***************************************************************************)
(* The documents and the network the functions are run on.                 *)
(***************************************************************************)
\* most items of a metadata mapping, most result URLs of a web search
MaxMetadata == 2

MaxUrls == 2

TextDoi == <<"1", "0", ".", "1", "2", "3", "4", "/", "a", "b">>

TextDoiShort == <<"1", "0", ".", "1", "2", "3", "4", "/", "a">>

TextArxiv == <<"2", "1", "0", "1", ".", "1", "2", "3", "4", "5">>

TextArxivPdf == <<"a", "r", "X", "i", "v", ":", "2", "1", "0", "1", ".", "1", "v", "2", ".", "p", "d", "f">>

TextBoth == <<"D", "O", "I", ":", " ", "1", "0", ".", "1", "2", "3", "4", "/", "a", "b", " ", "a", "r", "X", "i", "v", ":", "2", "1", "0", "1", ".", "1">>

TextDoiLike == <<"1", "0", ".", "1", "2", "3", "4", "a", " ", "2", "1", "0", "1", ".", "1", ".", "p", "d", "f">>

TextPlain == <<"n", "o", " ", "i", "d">>

TextBlank == <<" ">>

Texts ==
  {TextDoi, TextDoiShort, TextArxiv, TextArxivPdf, TextBoth, TextDoiLike, TextPlain,
   TextBlank, <<>>}

MetaKeys == {"doi", "Title", "Author", "/wps-journaldoi"}

MetaValues == {<<>>, TextDoi, TextPlain, TextBoth}

Urls == {<<"h", "t", "t", "p", ":", "/", "/", "x", ".", "o", "r", "g", "/", "a">>, TextDoi}

Nets == {"ok", "unreachable", "http_error"}

DistinctKeys(md) == \A i, j \in 1..Len(md) : md[i][1] = md[j][1] => i = j

Metadatas ==
  {md \in UNION {[1..n -> MetaKeys \X MetaValues] : n \in 0..MaxMetadata} :
     DistinctKeys(md)}

UrlLists == UNION {[1..n -> Urls] : n \in 0..MaxUrls}

(***************************************************************************)
(* docscraper.py: the term-matching scorer.                                *)
(***************************************************************************)
FreqDistAndCount(term_count, frequency_dist) ==
  [tag |-> "FreqDistAndCount", term_count |-> term_count, frequency_dist |-> frequency_dist]

\* Counter.update with one more word: a new word is entered after those
\* already counted (a dict keeps insertion order)
CounterAdd(counter, word) ==
  IF \E i \in 1..Len(counter) : counter[i][1] = word
  THEN [i \in 1..Len(counter) |->
          IF counter[i][1] = word THEN <<word, counter[i][2] + 1>> ELSE counter[i]]
  ELSE Append(counter, <<word, 1>>)

\* Counter(iterable).items(): (word, count) in the order the words were first met
RECURSIVE Counter(_)
Counter(words) ==
  IF Len(words) = 0 THEN <<>>
  ELSE CounterAdd(Counter(SubSeq(words, 1, Len(words) - 1)), words[Len(words)])

\* a sort that puts the later of two items with the same count first
sorted_position_unstable(items, i) ==
  Cardinality({j \in 1..Len(items) : items[j][2] > items[i][2]})
  + Cardinality({j \in (i + 1)..Len(items) : items[j][2] = items[i][2]}) + 1

\* where sorted(items, key=itemgetter(1), reverse=True) puts item i: after
\* every item with a greater count and, the sort being stable, after the
\* earlier items with the same count
sorted_position(items, i) ==
  Cardinality({j \in 1..Len(items) : items[j][2] > items[i][2]})
  + Cardinality({j \in 1..(i - 1) : items[j][2] = items[i][2]}) + 1

\* Counter.most_common(n) is heapq.nlargest(n, items, key=itemgetter(1)), which
\* is sorted(items, key=itemgetter(1), reverse=True)[:n]
most_common(items, n) ==
  [k \in 1..(IF Len(items) < n THEN Len(items) ELSE n) |->
     items[CHOOSE i \in 1..Len(items) : sorted_position(items, i) = k]]

\* sum(term[1] for term in matching_terms)
RECURSIVE sum_of_counts(_)
sum_of_counts(terms) ==
  IF Len(terms) = 0 THEN 0
  ELSE terms[1][2] + sum_of_counts(SubSeq(terms, 2, Len(terms)))

\* match_terms once the matching words are counted, with a term_count that
\* adds up every matching word
match_terms_counting_all(counter) ==
  Ret(FreqDistAndCount(sum_of_counts(counter), most_common(counter, 3)), <<>>)

\* match_terms once the matching words are counted
match_terms_from(counter) ==
  Ret(FreqDistAndCount(sum_of_counts(most_common(counter, 3)), most_common(counter, 3)),
      <<>>)

match_terms(target, word_set) ==
  match_terms_from(Counter(SelectSeq(target, LAMBDA word : word \in word_set)))

\* str.strip(): without the whitespace at either end
strip(s) ==
  LET inner == {i \in 1..Len(s) : s[i] \notin Whitespace}
  IN IF inner = {} THEN <<>>
     ELSE Slice(s, CHOOSE b \in inner : \A i \in inner : b <= i,
                (CHOOSE e \in inner : \A i \in inner : i <= e) + 1)

\* str.lower()
lower(s) == casefold(s)

\* str.split(sep) for a separator of one character: the pieces between the
\* separators, empty ones included
RECURSIVE split(_, _)
split(s, sep) ==
  LET at == {i \in 1..Len(s) : s[i] = sep}
  IN IF at = {} THEN <<s>>
     ELSE LET first == CHOOSE i \in at : \A j \in at : i <= j
          IN <<Slice(s, 1, first)>> \o split(Slice(s, first + 1, Len(s) + 1), sep)

\* str.split(): the runs of characters that are not whitespace
RECURSIVE split_whitespace(_)
split_whitespace(s) ==
  IF strip(s) = <<>> THEN <<>>
  ELSE LET t == strip(s)
           ws == {i \in 1..Len(t) : t[i] \in Whitespace}
       IN IF ws = {} THEN <<t>>
          ELSE LET first == CHOOSE i \in ws : \A j \in ws : i <= j
               IN <<Slice(t, 1, first)>> \o split_whitespace(Slice(t, first + 1, Len(t) + 1))

\* format_manuscript splitting at any whitespace
format_manuscript_any_whitespace(preprint) == split_whitespace(lower(strip(preprint)))

format_manuscript(preprint) == split(lower(strip(preprint)), " ")

(***************************************************************************)
(* Python floats, as the rationals they stand for: num/den in lowest terms *)
(* with den > 0.  The sums and products below are of small multiples of    *)
(* 1/4, which floats hold exactly; a quotient is rounded by a float, and   *)
(* rounding keeps order and keeps 0, 1/2 and 1.                            *)
(***************************************************************************)
RECURSIVE GCD(_, _)
GCD(a, b) == IF b = 0 THEN a ELSE GCD(b, a % b)

Abs(n) == IF n < 0 THEN -n ELSE n

Float(n, d) ==
  [tag |-> "float",
   num |-> (IF d < 0 THEN -n ELSE n) \div GCD(Abs(n), Abs(d)),
   den |-> Abs(d) \div GCD(Abs(n), Abs(d))]

\* over the least common denominator
FloatAdd(x, y) ==
  Float(x.num * (y.den \div GCD(x.den, y.den)) + y.num * (x.den \div GCD(x.den, y.den)),
        x.den * (y.den \div GCD(x.den, y.den)))

\* cancelled crosswise before it is multiplied out
FloatMul(x, y) ==
  Float((x.num \div GCD(Abs(x.num), y.den)) * (y.num \div GCD(Abs(y.num), x.den)),
        (x.den \div GCD(Abs(y.num), x.den)) * (y.den \div GCD(Abs(x.num), y.den)))

\* x / y with y not zero
FloatDiv(x, y) ==
  FloatMul(x, Float(y.den, y.num))

FloatLeq(x, y) ==
  x.num * (y.den \div GCD(x.den, y.den)) <= y.num * (x.den \div GCD(x.den, y.den))

\* max(a, b) and min(a, b): the first of two equal arguments
max(a, b) == IF FloatLeq(b, a) THEN a ELSE b

min(a, b) == IF FloatLeq(a, b) THEN a ELSE b

(***************************************************************************)
(* docscraper.py: the weighted relevance formula.                          *)
(***************************************************************************)
\* a guard that tests total_words alone
degenerate_total_only(total_words, desired_matches, undesired_matches) == total_words <= 0

degenerate(total_words, desired_matches, undesired_matches) ==
  total_words <= 0 \/ desired_matches < 0 \/ undesired_matches < 0

\* a desired match that weighs less than an unmatched word
desired_weight_low == Float(1, 4)

desired_weight == Float(1, 1)

undesired_weight == Float(-1, 4)

\* unmatched words that weigh nothing
other_weight_none == Float(0, 1)

other_weight == Float(1, 2)

other_words(total_words, desired_matches, undesired_matches) ==
  total_words - desired_matches - undesired_matches

likelihood_score(total_words, desired_matches, undesired_matches) ==
  FloatDiv(FloatAdd(FloatAdd(FloatMul(Float(desired_matches, 1), desired_weight),
                             FloatMul(Float(undesired_matches, 1), undesired_weight)),
                    FloatMul(Float(other_words(total_words, desired_matches,
                                               undesired_matches), 1),
                             other_weight)),
           Float(total_words, 1))

\* no clamping
unclamped(score) == score

\* max(0.0, min(1.0, likelihood_score))
clamped(score) == max(Float(0, 1), min(Float(1, 1), score))

calculate_likelihood(total_words, desired_matches, undesired_matches) ==
  IF degenerate(total_words, desired_matches, undesired_matches)
  THEN Ret(Float(0, 1), <<>>)
  ELSE Ret(clamped(likelihood_score(total_words, desired_matches, undesired_matches)),
           <<>>)

\* re.compile(r"\(.*\=.*\)"); findall of a pattern without a group lists the
\* whole matches, which the group around all of it stands for
PAPER_STATISTIC ==
  Grp("1", Cat(<<Ch("("), Star(Set((Printable \cup Whitespace) \ {"\n"})), Ch("="),
                 Star(Set((Printable \cup Whitespace) \ {"\n"})), Ch(")")>>))

DocumentResult(doi, target, bycatch, total_word_count, wordscore, parentheticals) ==
  [tag |-> "DocumentResult",
   doi_from_pdf |-> doi,
   matching_terms |-> target.term_count,
   bycatch_terms |-> bycatch.term_count,
   total_word_count |-> total_word_count,
   wordscore |-> wordscore,
   target_terms_top_3 |-> target.frequency_dist,
   bycatch_terms_top_3 |-> bycatch.frequency_dist,
   paper_parentheticals |-> parentheticals]

\* obtain from the tokens on, with the identifier it has for the document
obtain_scored(doi, token_list, preprint, target_set, bycatch_set, eff) ==
  Ret(DocumentResult(doi,
                     match_terms(token_list, target_set).v,
                     match_terms(token_list, bycatch_set).v,
                     Len(token_list),
                     calculate_likelihood(Len(token_list),
                                          match_terms(token_list, target_set).v.term_count,
                                          match_terms(token_list, bycatch_set).v.term_count).v,
                     Findall(PAPER_STATISTIC, preprint)),
      eff)

\* DocScraper.obtain(search_text) with the text of the document in preprint,
\* the two word sets read, and found the outcome of
\* doi_from_pdf(search_text, preprint), which is called for a PDF only
obtain(found, is_pdf, preprint, target_set, bycatch_set) ==
  IF is_pdf /\ found.k = "raise" THEN found
  ELSE IF is_pdf /\ found.v.tag = "None" THEN Raise("AttributeError", found.eff)
  ELSE obtain_scored(IF is_pdf THEN PyStr(found.v.identifier) ELSE PyNone,
                     format_manuscript(preprint), preprint, target_set, bycatch_set,
                     IF is_pdf THEN found.eff ELSE <<>>)

(***************************************************************************)
(* sciscrape/wordscore.py: the probabilistic wordscore model.  sqrt is     *)
(* kept as a term: standard_deviation is the root of variance, skewness a  *)
(* numerator over that root.                                               *)
(***************************************************************************)
\* an implicature_score that was not supplied
FloatNone == [tag |-> "None", num |-> 0, den |-> 1]

FloatSub(x, y) == FloatAdd(x, Float(-y.num, y.den))

\* x ** k for an int k and, when k < 0, x not zero; 0.0 ** 0 is 1.0
RECURSIVE FloatPow(_, _)
FloatPow(x, k) ==
  IF k = 0 THEN Float(1, 1)
  ELSE IF k < 0 THEN FloatDiv(Float(1, 1), FloatPow(x, -k))
  ELSE FloatMul(x, FloatPow(x, k - 1))

\* math.comb(n, k) for 0 <= n, 0 <= k; 0 when k > n
RECURSIVE comb(_, _)
comb(n, k) ==
  IF k = 0 THEN 1
  ELSE IF n = 0 THEN 0
  ELSE comb(n - 1, k - 1) + comb(n - 1, k)

RelevanceCalculator(target_count, bycatch_count, total_length, implicature_score) ==
  [tag |-> "RelevanceCalculator", target_count |-> target_count,
   bycatch_count |-> bycatch_count, total_length |-> total_length,
   implicature_score |-> implicature_score]

Wordscore(probability, expectation, variance, standard_deviation, skewness) ==
  [tag |-> "Wordscore", probability |-> probability, expectation |-> expectation,
   variance |-> variance, standard_deviation |-> standard_deviation,
   skewness |-> skewness]

\* (part / whole) ** part, with whole not zero
get_margin(part, whole) == FloatPow(Float(part, whole), part)

neutral_part(self) == self.total_length - self.target_count

success_margin(self) == get_margin(self.target_count, self.total_length)

failure_margin(self) == get_margin(neutral_part(self), self.total_length)

target_probability(self) == Float(self.target_count, self.total_length)

bycatch_probability(self) == Float(self.bycatch_count, self.total_length)

get_likelihood(self) ==
  FloatMul(FloatMul(Float(comb(self.total_length, self.target_count), 1),
                    success_margin(self)),
           failure_margin(self))

expectation(self) == FloatMul(Float(self.target_count, 1), target_probability(self))

variance(self) ==
  FloatMul(expectation(self), FloatSub(Float(1, 1), target_probability(self)))

\* sqrt(variance), for variance >= 0
sqrt(x) == [tag |-> "sqrt", of |-> x]

\* (failure_margin - target_probability) / standard_deviation, for variance > 0
skewness(self) ==
  [tag |-> "over", num |-> FloatSub(failure_margin(self), target_probability(self)),
   den |-> sqrt(variance(self))]

\* total_evidence of bayes_theorem
total_evidence(prior, likelihood, margin) == FloatAdd(FloatMul(prior, likelihood), margin)

\* bayes_theorem, for a total_evidence that is not zero
bayes_theorem(prior, likelihood, margin) ==
  FloatDiv(FloatMul(prior, likelihood), total_evidence(prior, likelihood, margin))

positive_posterior(self) ==
  bayes_theorem(target_probability(self), get_likelihood(self), failure_margin(self))

neg_posterior(self) ==
  bayes_theorem(bycatch_probability(self), failure_margin(self), get_likelihood(self))

unweighted_wordscore(self) == FloatSub(positive_posterior(self), neg_posterior(self))

weight == Float(17, 20)

\* what calculate_wordscore leaves in self.implicature_score
implicature_score_after(self, likelihood) ==
  IF self.implicature_score.tag = "None" THEN likelihood ELSE self.implicature_score

calculate_wordscore(self, likelihood) ==
  FloatAdd(FloatMul(likelihood, weight),
           FloatMul(implicature_score_after(self, likelihood),
                    FloatSub(Float(1, 1), weight)))

\* RelevanceCalculator.__call__: the outcome, in the order the statements can
\* fail: a division by total_length, the root of a negative variance, the
\* division by standard_deviation, the divisions by total_evidence
call(self) ==
  IF self.total_length = 0 THEN Raise("ZeroDivisionError", <<>>)
  ELSE IF variance(self).num < 0 THEN Raise("ValueError", <<>>)
  ELSE IF variance(self).num = 0 THEN Raise("ZeroDivisionError", <<>>)
  ELSE IF total_evidence(target_probability(self), get_likelihood(self),
                         failure_margin(self)).num = 0
       \/ total_evidence(bycatch_probability(self), failure_margin(self),
                         get_likelihood(self)).num = 0
  THEN Raise("ZeroDivisionError", <<>>)
  ELSE Ret(Wordscore(calculate_wordscore(self, unweighted_wordscore(self)),
                     expectation(self), variance(self), sqrt(variance(self)),
                     skewness(self)), <<>>)

(***************************************************************************)
(* factories.py: the choice of a scraper by name.                          *)
(***************************************************************************)
SciScraper(scraper, stager) == [tag |-> "SciScraper", scraper |-> scraper, stager |-> stager]

SCISCRAPERS ==
  [citations |-> SciScraper("csv_lookup", "citations"),
   csv |-> SciScraper("csv_lookup", "None"),
   directory |-> SciScraper("pdf_lookup", "pdf_expanded"),
   download |-> SciScraper("csv_lookup", "download"),
   fastscore |-> SciScraper("abstract_lookup", "None"),
   images |-> SciScraper("csv_lookup", "images"),
   orcid |-> SciScraper("csv_lookup", "authors"),
   references |-> SciScraper("csv_lookup", "references"),
   wordscore |-> SciScraper("csv_lookup", "abstracts")]

\* logger.error("Unknown data scraping process option: %s.", scrape_process)
LoggedError(scrape_process) == [e |-> "error", text |-> scrape_process]

\* a lookup that falls back on the "csv" scraper for a name it does not have
SCISCRAPERS_get(scrape_process) ==
  IF scrape_process \in DOMAIN SCISCRAPERS
  THEN Ret(SCISCRAPERS[scrape_process], <<>>)
  ELSE Ret(SCISCRAPERS["csv"], <<>>)

\* SCISCRAPERS[scrape_process]
SCISCRAPERS_getitem(scrape_process) ==
  IF scrape_process \in DOMAIN SCISCRAPERS
  THEN Ret(SCISCRAPERS[scrape_process], <<>>)
  ELSE Raise("KeyError", <<>>)

(***************************************************************************)
(* fetch.py: the generator of Fetcher.fetch, and the export of a run with  *)
(* its backups.  A run of the generator is the sequence of what it did:    *)
(* its calls of scraper.obtain and the items it yielded.                   *)
(***************************************************************************)
Generator(items) == [tag |-> "generator", items |-> items]

ScrapeResult(n) == [tag |-> "result", n |-> n]

\* the scraper of the Fetcher: what obtain returns for a term, which is
\* None, one result, a list (no generator), or a generator of no or of two
\* results
scraper_obtain(term) ==
  CASE term = "none" -> [tag |-> "None"]
    [] term = "one" -> ScrapeResult(0)
    [] term = "list" -> [tag |-> "list", items |-> <<ScrapeResult(1), ScrapeResult(2)>>]
    [] term = "empty" -> Generator(<<>>)
    [] OTHER -> Generator(<<ScrapeResult(1), ScrapeResult(2)>>)

Obtained(term) == [h |-> "obtain", args |-> <<term>>, o |-> scraper_obtain(term)]

Yielded(item) == [h |-> "yield", args |-> <<item>>, o |-> item]

\* the body of the loop of fetch without its first branch
yields_of_not_none(results) ==
  IF results.tag # "None" THEN <<results>> ELSE <<>>

\* what the body of the loop of fetch yields for the results of a term
yields_of(results) ==
  IF results.tag = "generator" THEN results.items
  ELSE IF results.tag # "None" THEN <<results>>
  ELSE <<>>

\* next() on the generator that has obtained i terms and yielded j of the
\* last one's results: what it does until it yields again or is exhausted
RECURSIVE resume(_, _, _)
resume(terms, i, j) ==
  IF i >= 1 /\ j < Len(yields_of(scraper_obtain(terms[i])))
  THEN <<Yielded(yields_of(scraper_obtain(terms[i]))[j + 1])>>
  ELSE IF i = Len(terms) THEN <<>>
  ELSE <<Obtained(terms[i + 1])>> \o resume(terms, i + 1, 0)

\* max_backups of export_sciscrape_results
max_backups_default == 3

\* the files of the export directory with today's name: at 0 the export
\* path, at i the backup with suffix .i.csv; "" where there is no file
Indices == 0..(max_backups_default + 1)

NoFiles == [i \in Indices |-> ""]

exists(fs, i) == fs[i] # ""

\* Path.rename where the target is replaced when it exists
rename(fs, old, new) == [fs EXCEPT ![new] = fs[old], ![old] = ""]

\* the loop of rotate_existing_files from i down to 1
RECURSIVE rotate_from(_, _)
rotate_from(fs, i) ==
  IF i < 1 THEN fs
  ELSE rotate_from(IF exists(fs, i) THEN rename(fs, i, i + 1) ELSE fs, i - 1)

\* the loop taken from 1 up to i
RECURSIVE rotate_up_to(_, _)
rotate_up_to(fs, i) ==
  IF i < 1 THEN fs
  ELSE LET below == rotate_up_to(fs, i - 1)
       IN IF exists(below, i) THEN rename(below, i, i + 1) ELSE below

rotate_existing_files_ascending(max_backups, fs) == rotate_up_to(fs, max_backups - 1)

rotate_existing_files(max_backups, fs) == rotate_from(fs, max_backups - 1)

(***************************************************************************)
(* Documents, networks, token sequences and word sets to run the code on.  *)
(***************************************************************************)
\* most tokens of a text given to match_terms
MaxTokens == 5

\* most characters of a manuscript given to format_manuscript
MaxChars == 5

ManuscriptChars == {"a", "B", " ", "\t", "\n"}

Manuscripts == UNION {[1..n -> ManuscriptChars] : n \in 0..MaxChars}

\* most terms given to fetch
MaxTerms == 3

Terms == {"none", "one", "list", "empty", "two"}

TermLists == UNION {[1..n -> Terms] : n \in 0..MaxTerms}

\* most exports made on one day, and the dataframes exported
MaxExports == 5

Dataframes == {"a", "b"}

\* most entries typed at the prompt of read_factory
MaxPrompts == 3

\* what is typed at the prompt: the names of the scrapers and three others
Entries == DOMAIN SCISCRAPERS \cup {"lisjdfklsdjlkfjdsklfjsd", "Citations", ""}

\* the words of the target and of the bycatch file of a DocScraper
TargetWords == {<<"n", "o">>, <<"d", "o", "i", ":">>}

BycatchWords == {<<"i", "d">>}

\* a Python list
PyList(items) ==
  [tag |-> "list", str |-> <<>>, identifier |-> <<>>, identifier_type |-> "",
   validation_info |-> [tag |-> "", str |-> <<>>], items |-> items]

Words == {"a", "b", "c", "d"}

\* most words of a manuscript, most matches of either kind counted in it
MaxTotalWords == 3

MaxMatches == 3

TotalWords == -1..MaxTotalWords

Matches == -1..MaxMatches

\* most words of a paper given to a RelevanceCalculator, and most bycatch words
MaxLength == 4

MaxBycatch == 2

Scores == {Float(1, 5), Float(3, 5), Float(9, 10)}

Calculators ==
  {RelevanceCalculator(target_count, bycatch_count, total_length, implicature_score) :
     target_count \in 0..MaxLength, bycatch_count \in 0..MaxBycatch,
     total_length \in 0..MaxLength, implicature_score \in {FloatNone} \cup Scores}

TokenLists == UNION {[1..n -> Words] : n \in 0..MaxTokens}

(***************************************************************************)
(* State: the document (metadata, file stem, extracted text), the network, *)
(* the tokens and the word set of a scoring (target, word_set), a          *)
(* RelevanceCalculator object (calculator), and the operation run on them: *)
(* which (op, with arg the identifier kind it was given), how far it is    *)
(* (pc), the calls made with their outcomes (invoked), and its outcome     *)
(* (out).                                                                  *)
(***************************************************************************)
VARIABLES metadata, stem, preprint, network, results, target, word_set, calculator,
          search_terms, files, op, arg, pc, invoked, out

vars ==
  <<metadata, stem, preprint, network, results, target, word_set, calculator,
    search_terms, files, op, arg, pc, invoked, out>>

inputs ==
  <<metadata, stem, preprint, network, results, target, word_set, calculator,
    search_terms, files>>

\* no document, none of the scorers' inputs, and nothing run yet
NoDocument ==
  /\ metadata = <<>> /\ stem = <<"f">> /\ preprint = <<>> /\ network = "ok" /\ results = <<>>

NoTokens == target = <<>> /\ word_set = {}

NoCalculator == calculator = PyNone

\* no terms to fetch, and an export directory without a file
NoRun == search_terms = <<>> /\ files = NoFiles

Idle ==
  /\ op = "idle"
  /\ arg = ""
  /\ pc = "idle"
  /\ invoked = <<>>
  /\ out = Ret(PyNone, <<>>)

Init ==
  /\ \/ metadata = <<>> /\ preprint \in Texts /\ results \in UrlLists
     \/ metadata \in Metadatas /\ preprint = TextPlain /\ results = <<>>
  /\ stem = <<"f">>
  /\ network \in Nets
  /\ NoTokens
  /\ NoCalculator
  /\ NoRun
  /\ op = "idle"
  /\ arg = ""
  /\ pc = "idle"
  /\ invoked = <<>>
  /\ out = Ret(PyNone, <<>>)

\* A function called on its own, as the tests call it
Finish(name, kind, o) ==
  /\ op = "idle"
  /\ op' = name
  /\ arg' = kind
  /\ pc' = IF o.k = "raise" THEN "raised" ELSE "returned"
  /\ out' = o
  /\ UNCHANGED <<inputs, invoked>>

CallStandardizeIdentifier ==
  \E kind \in {"doi", "arxiv"} :
    Finish("standardize_identifier", kind, standardize_identifier(preprint, kind))

\* standardize_identifier applied to what standardize_identifier returned
CallStandardizeIdentifierAgain ==
  /\ op = "standardize_identifier"
  /\ pc = "returned"
  /\ op' = "standardize_identifier_again"
  /\ invoked' = <<[h |-> "standardize_identifier", args |-> <<arg>>, o |-> out]>>
  /\ out' = standardize_identifier(out.v.str, arg)
  /\ pc' = IF out'.k = "raise" THEN "raised" ELSE "returned"
  /\ UNCHANGED <<inputs, arg>>

CallExtractIdentifier == Finish("extract_identifier", "", extract_identifier(preprint))

CallValidateIdentifier ==
  \E kind \in {"doi", "arxiv"} :
    Finish("validate_identifier", kind, validate_identifier(preprint, kind, network))

CallFindIdentifierInText ==
  Finish("find_identifier_in_text", "", find_identifier_in_text(preprint, network))

CallFindIdentifierInMetadata ==
  Finish("find_identifier_in_metadata", "", find_identifier_in_metadata(metadata))

CallFindIdentifierInPdfInfo ==
  Finish("find_identifier_in_pdf_info", "", find_identifier_in_pdf_info(metadata, network))

CallFindIdentifierInGoogleSearch ==
  Finish("find_identifier_in_google_search", "",
         find_identifier_in_google_search(preprint, num_results_default, network, results))

CallFindIdentifierByGoogling ==
  Finish("find_identifier_by_googling_first_n_characters_in_pdf", "",
         find_identifier_by_googling_first_n_characters_in_pdf(
           preprint, num_results_default, num_characters_default, network, results))

\* doi_from_pdf(file, preprint) is entered
DoiFromPdf ==
  /\ op = "idle"
  /\ op' = "doi_from_pdf"
  /\ pc' = "running"
  /\ UNCHANGED <<inputs, arg, invoked, out>>

\* handler(*args) has ended with outcome o; an exception leaves doi_from_pdf
Invoked(handler, o) ==
  /\ invoked' = Append(invoked, [h |-> handler[1], args |-> handler[2], o |-> o])
  /\ pc' = IF o.k = "raise" THEN "raised" ELSE "running"
  /\ out' = IF o.k = "raise" THEN o ELSE out

\* next(filtered_handler, None) pulls one more handler, or has its value
NextHandler ==
  /\ op = "doi_from_pdf"
  /\ pc = "running"
  /\ IF next_ready(invoked)
     THEN /\ pc' = "returned"
          /\ out' = (CHOOSE d \in {invoked[i] : i \in 1..Len(invoked)} : Truthy(d.o.v)).o
          /\ UNCHANGED invoked
     ELSE IF Len(invoked) = Len(handlers)
     THEN /\ pc' = "returned"
          /\ out' = Ret(PyNone, <<>>)
          /\ UNCHANGED invoked
     ELSE Invoked(handlers[Len(invoked) + 1],
                  Call(handlers[Len(invoked) + 1], metadata, stem, preprint, network,
                       results))
  /\ UNCHANGED <<inputs, op, arg>>

\* DocScraper(is_pdf=True).obtain(file), once its doi_from_pdf has ended
ObtainFromPdf ==
  /\ op = "doi_from_pdf"
  /\ pc \in {"returned", "raised"}
  /\ op' = "obtain"
  /\ arg' = "pdf"
  /\ out' = obtain(out, TRUE, preprint, TargetWords, BycatchWords)
  /\ pc' = IF out'.k = "raise" THEN "raised" ELSE "returned"
  /\ UNCHANGED <<inputs, invoked>>

\* DocScraper(is_pdf=False).obtain(abstract)
ObtainFromAbstract ==
  Finish("obtain", "abstract",
         obtain(Ret(PyNone, <<>>), FALSE, preprint, TargetWords, BycatchWords))

Next ==
  \/ ObtainFromPdf
  \/ ObtainFromAbstract
  \/ CallStandardizeIdentifier
  \/ CallStandardizeIdentifierAgain
  \/ CallExtractIdentifier
  \/ CallValidateIdentifier
  \/ CallFindIdentifierInText
  \/ CallFindIdentifierInMetadata
  \/ CallFindIdentifierInPdfInfo
  \/ CallFindIdentifierInGoogleSearch
  \/ CallFindIdentifierByGoogling
  \/ DoiFromPdf
  \/ NextHandler

Spec == Init /\ [][Next]_vars

(***************************************************************************)
(* match_terms on every token sequence and word set.                       *)
(***************************************************************************)
MatchTermsInit ==
  /\ NoDocument
  /\ target \in TokenLists
  /\ word_set \in SUBSET Words
  /\ NoCalculator
  /\ NoRun
  /\ Idle

CallMatchTerms == Finish("match_terms", "", match_terms(target, word_set))

MatchTermsNext == CallMatchTerms

MatchTermsSpec == MatchTermsInit /\ [][MatchTermsNext]_vars

(***************************************************************************)
(* format_manuscript on every short text of letters, spaces, tabs and      *)
(* newlines.                                                               *)
(***************************************************************************)
ManuscriptInit ==
  /\ metadata = <<>> /\ stem = <<"f">> /\ network = "ok" /\ results = <<>>
  /\ preprint \in Manuscripts
  /\ NoTokens
  /\ NoCalculator
  /\ NoRun
  /\ Idle

CallFormatManuscript ==
  Finish("format_manuscript", "", Ret(PyList(format_manuscript(preprint)), <<>>))

ManuscriptNext == CallFormatManuscript

ManuscriptSpec == ManuscriptInit /\ [][ManuscriptNext]_vars

(***************************************************************************)
(* read_factory at a prompt where anything may be typed: invoked lists the *)
(* calls of input() with what was typed, out.eff the errors logged.        *)
(***************************************************************************)
FactoryInit == NoDocument /\ NoTokens /\ NoCalculator /\ NoRun /\ Idle

\* read_factory() is entered
ReadFactory ==
  /\ op = "idle"
  /\ op' = "read_factory"
  /\ pc' = "running"
  /\ UNCHANGED <<inputs, arg, invoked, out>>

\* one turn of the loop: input(), then the lookup, returned or logged
Prompt ==
  /\ op = "read_factory"
  /\ pc = "running"
  /\ Len(invoked) < MaxPrompts
  /\ \E scrape_process \in Entries :
       /\ invoked' = Append(invoked, [h |-> "input", args |-> <<scrape_process>>,
                                      o |-> Ret(PyStr(scrape_process), <<>>)])
       /\ IF SCISCRAPERS_getitem(scrape_process).k = "ret"
          THEN /\ pc' = "returned"
               /\ out' = Ret(SCISCRAPERS_getitem(scrape_process).v, out.eff)
          ELSE /\ pc' = "running"
               /\ out' = Ret(out.v, Append(out.eff, LoggedError(scrape_process)))
  /\ UNCHANGED <<inputs, op, arg>>

FactoryNext == ReadFactory \/ Prompt

FactorySpec == FactoryInit /\ [][FactoryNext]_vars

(***************************************************************************)
(* fetch on every short list of terms, its generator driven by next().     *)
(***************************************************************************)
FetchInit ==
  /\ NoDocument /\ NoTokens /\ NoCalculator
  /\ search_terms \in TermLists
  /\ files = NoFiles
  /\ Idle

\* fetch(search_terms): the generator is made, its body not yet entered
Fetch ==
  /\ op = "idle"
  /\ op' = "fetch"
  /\ pc' = "suspended"
  /\ UNCHANGED <<inputs, arg, invoked, out>>

Obtains(done) == SelectSeq(done, LAMBDA d : d.h = "obtain")

\* the items yielded since the last call of obtain
RECURSIVE YieldsAtEnd(_)
YieldsAtEnd(done) ==
  IF Len(done) = 0 \/ done[Len(done)].h = "obtain" THEN 0
  ELSE 1 + YieldsAtEnd(SubSeq(done, 1, Len(done) - 1))

\* the generator having done what is in did: suspended at a yield, or ended
Resumed(did) ==
  /\ invoked' = invoked \o did
  /\ IF Len(did) > 0 /\ did[Len(did)].h = "yield"
     THEN pc' = "suspended" /\ out' = Ret(did[Len(did)].o, <<>>)
     ELSE pc' = "returned" /\ out' = Raise("StopIteration", <<>>)

\* next() on the generator
NextResult ==
  /\ op = "fetch"
  /\ pc = "suspended"
  /\ Resumed(resume(search_terms, Len(Obtains(invoked)), YieldsAtEnd(invoked)))
  /\ UNCHANGED <<inputs, op, arg>>

FetchNext == Fetch \/ NextResult

FetchSpec == FetchInit /\ [][FetchNext]_vars

(***************************************************************************)
(* export_sciscrape_results, run after run on one day with the default     *)
(* max_backups: invoked lists the exports with their dataframes.           *)
(***************************************************************************)
ExportInit == NoDocument /\ NoTokens /\ NoCalculator /\ NoRun /\ Idle

\* export_sciscrape_results(dataframe) up to the end of rotate_existing_files
ExportRotate ==
  /\ op = "idle" \/ (op = "export_sciscrape_results" /\ pc = "returned")
  /\ Len(invoked) < MaxExports
  /\ \E dataframe \in Dataframes :
       invoked' = Append(invoked, [h |-> "export_sciscrape_results", args |-> <<dataframe>>,
                                   o |-> Ret(PyNone, <<>>)])
  /\ op' = "export_sciscrape_results"
  /\ pc' = "rotated"
  /\ files' = rotate_existing_files(max_backups_default, files)
  /\ UNCHANGED <<metadata, stem, preprint, network, results, target, word_set, calculator,
                 search_terms, arg, out>>

\* the export of before is moved to backup 1
ExportMove ==
  /\ op = "export_sciscrape_results"
  /\ pc = "rotated"
  /\ pc' = "moved"
  /\ files' = IF exists(files, 0) THEN rename(files, 0, 1) ELSE files
  /\ UNCHANGED <<metadata, stem, preprint, network, results, target, word_set, calculator,
                 search_terms, op, arg, invoked, out>>

\* dataframe.to_csv(export_path)
ExportWrite ==
  /\ op = "export_sciscrape_results"
  /\ pc = "moved"
  /\ pc' = "returned"
  /\ files' = [files EXCEPT ![0] = invoked[Len(invoked)].args[1]]
  /\ out' = Ret(PyNone, <<>>)
  /\ UNCHANGED <<metadata, stem, preprint, network, results, target, word_set, calculator,
                 search_terms, op, arg, invoked>>

ExportNext == ExportRotate \/ ExportMove \/ ExportWrite

ExportSpec == ExportInit /\ [][ExportNext]_vars

(***************************************************************************)
(* Properties.                                                             *)
(***************************************************************************)
Ended == pc \in {"returned", "raised"}

\* a strategy's position in the cascade's priority order
Rank(h) ==
  CASE h = "find_identifier_in_metadata" -> 1
    [] h = "find_identifier_in_pdf_info" -> 2
    [] h = "find_identifier_in_text" -> 3
    [] OTHER -> 5

\* some pattern of the kind matches the text, as Text Search reads it
Hit(kind, text) ==
  \E k \in 1..Len(IDENTIFIER_PATTERNS(kind)) :
    Search(IDENTIFIER_PATTERNS(kind)[k], casefold(text)).ok

NoHit(text) == ~Hit("doi", text) /\ ~Hit("arxiv", text)

\* C1: the cascade invokes its strategies one at a time in priority order, no
\* strategy is invoked after one that returned a non-null result, and that
\* result is what doi_from_pdf returns.
C1_CascadeShortCircuit ==
  op = "doi_from_pdf" =>
    /\ \A i, j \in 1..Len(invoked) : i < j => Rank(invoked[i].h) < Rank(invoked[j].h)
    /\ \A i \in 1..(Len(invoked) - 1) :
         invoked[i].o.k = "ret" /\ ~Truthy(invoked[i].o.v)
    /\ (pc = "returned" /\ Len(invoked) > 0 /\ Truthy(invoked[Len(invoked)].o.v))
         => out = invoked[Len(invoked)].o
    /\ (pc = "returned" /\ Truthy(out.v))
         => Len(invoked) > 0 /\ out = invoked[Len(invoked)].o

\* the first strategy succeeded, the cascade returned its result, and none of
\* the later strategies was invoked
C1_Witness ==
  /\ op = "doi_from_pdf"
  /\ pc = "returned"
  /\ Len(invoked) = 1
  /\ out.v.tag = "DOIFromPDFResult"
  /\ out.v.identifier = TextDoi

\* C2: when the metadata-priority lookup and the metadata-value scan yield no
\* identifier, the cascade searches the title and then the full text, as two
\* steps in that order, before it searches the web.
C2_TitleThenFullText ==
  (/\ op = "doi_from_pdf"
   /\ Ended
   /\ Len(invoked) >= 2
   /\ \A i \in 1..2 : ~(invoked[i].o.k = "ret" /\ Truthy(invoked[i].o.v)))
  => \E i, j \in 1..Len(invoked) :
       /\ i < j
       /\ invoked[i].h = "find_identifier_in_text" /\ invoked[i].args[1] = "title"
       /\ invoked[j].h = "find_identifier_in_text" /\ invoked[j].args[1] = "preprint"
       /\ \A n \in 1..Len(invoked) : Rank(invoked[n].h) = 5 => n > j

\* C3: for a document in which nothing matches (no priority key with a value,
\* no pattern matching a metadata value, the title, the text or a result URL)
\* doi_from_pdf returns None or a result with an empty identifier; it does not
\* raise.
C3_NotFoundIsAValue ==
  (/\ op = "doi_from_pdf"
   /\ Ended
   /\ \A i \in 1..Len(metadata) :
        /\ \A k \in 1..Len(priority_keys) :
             metadata[i][1] = priority_keys[k] => Len(metadata[i][2]) = 0
        /\ NoHit(metadata[i][2])
   /\ NoHit(TitleOf(metadata, stem))
   /\ NoHit(preprint)
   /\ \A i \in 1..Len(results) : NoHit(results[i]))
  => pc = "returned" /\ (out.v = PyNone \/ Len(out.v.identifier) = 0)

\* C4: validate_identifier never raises: it returns None when the lookup of
\* either kind raises, and the lookup's payload otherwise.
C4_ValidateNeverRaises ==
  op = "validate_identifier" =>
    /\ out.k = "ret"
    /\ out.v = IF network = "ok" THEN PyStr(Payload(arg)) ELSE PyNone
    /\ Len(out.eff) = 1 /\ out.eff[1].e = "validate" /\ out.eff[1].id_type = arg
    /\ out.eff[1].ok <=> network = "ok"

\* the DOI host could not be reached, and validate_identifier returned None
C4_Witness ==
  /\ op = "validate_identifier"
  /\ arg = "doi"
  /\ network = "unreachable"
  /\ out.k = "ret"
  /\ out.v = PyNone

\* what a call did: a validator lookup that failed
FailedLookup(o) == \E n \in 1..Len(o.eff) : o.eff[n].e = "validate" /\ ~o.eff[n].ok

\* C5: when a strategy found an identifier and its validation failed, the
\* strategy, and the cascade, still return a result carrying an identifier.
C5_ValidationIsAdvisory ==
  (/\ op \in {"find_identifier_in_text", "find_identifier_in_pdf_info",
              "find_identifier_in_google_search", "doi_from_pdf"}
   /\ Ended
   /\ FailedLookup(out) \/ \E i \in 1..Len(invoked) : FailedLookup(invoked[i].o))
  => out.k = "ret" /\ out.v.tag = "DOIFromPDFResult" /\ Len(out.v.identifier) > 0

\* C6: every result a strategy returns has had its identifier validated, and
\* its validation field is true or a payload only if a lookup succeeded.
C6_ResultsAreValidated ==
  (/\ op \in {"find_identifier_in_metadata", "find_identifier_in_pdf_info",
              "find_identifier_in_text", "find_identifier_in_google_search",
              "find_identifier_by_googling_first_n_characters_in_pdf", "doi_from_pdf"}
   /\ pc = "returned"
   /\ out.v.tag = "DOIFromPDFResult")
  => /\ \E n \in 1..Len(out.eff) : out.eff[n].e = "validate"
     /\ out.v.validation_info.tag \in {"bool", "str"}
          => \E n \in 1..Len(out.eff) : out.eff[n].e = "validate" /\ out.eff[n].ok

\* the positions in priority_keys of the keys the mapping holds a non-empty value for
PresentKeys(md) ==
  {k \in 1..Len(priority_keys) :
     \E i \in 1..Len(md) : md[i][1] = priority_keys[k] /\ Len(md[i][2]) > 0}

C8_DoiBeforeArxiv ==
  op = "extract_identifier" =>
    /\ (Hit("doi", preprint) /\ Hit("arxiv", preprint))
         => /\ out.k = "ret"
            /\ Len(out.v.str) > 3
            /\ SubSeq(out.v.str, 1, 3) = <<"1", "0", ".">>
    /\ NoHit(preprint) => out = Ret(PyStr(<<>>), <<>>)

\* C9: find_identifier_in_text returns a result when the text holds an
\* identifier of either kind, of type "doi" when it holds a DOI (also beside an
\* arXiv identifier) and of type "arxiv" when it holds only an arXiv identifier.
C9_TextSearchFindsTheDoi ==
  (op = "find_identifier_in_text" /\ ~NoHit(preprint))
  => /\ out.k = "ret"
     /\ out.v.tag = "DOIFromPDFResult"
     /\ out.v.identifier_type = IF Hit("doi", preprint) THEN "doi" ELSE "arxiv"
     /\ preprint = TextBoth => out.v.identifier = TextDoi

\* C10: standardize_identifier never raises, and returns the empty string when
\* the canonical regex of the kind does not match the input.
C10_StandardizeNeverRaises ==
  op = "standardize_identifier" =>
    /\ out.k = "ret"
    /\ ~Search(IF arg = "doi" THEN DOI_REGEX ELSE ARXIV_REGEX, casefold(preprint)).ok
         => Len(out.v.str) = 0

\* C11: standardizing what standardize_identifier returned, with the same kind,
\* returns it unchanged, whenever the first result is not empty.
C11_StandardizeIsIdempotent ==
  (op = "standardize_identifier_again" /\ Len(invoked[1].o.v.str) > 0)
  => out = invoked[1].o

\* <4digits>.<digits>[.pdf] and nothing else
ArxivNormalForm ==
  Cat(<<Bol(FALSE), Grp("identifier", Cat(<<Rep(Set(Digit), 4, 4), Ch("."), Plus(Set(Digit))>>)),
        Opt(Lit(<<".", "p", "d", "f">>)), Eol(FALSE)>>)

\* C12: for kind arXiv, standardize_identifier returns the identifier the
\* canonical regex captured, without marker and version tag, followed by
\* ".pdf"; what it returns has the form <4digits>.<digits>[.pdf].
C12_ArxivNormalForm ==
  (op = "standardize_identifier" /\ arg = "arxiv" /\ pc = "returned")
  => /\ Search(ArxivNormalForm, out.v.str).ok
     /\ out.v.str = Group(Search(ARXIV_REGEX, casefold(preprint)), casefold(preprint),
                          "identifier") \o <<".", "p", "d", "f">>

(***************************************************************************)
(* calculate_likelihood on every triple of counts, and then once more with *)
(* another number of desired matches.                                      *)
(***************************************************************************)
LikelihoodInit == NoDocument /\ NoTokens /\ NoCalculator /\ NoRun /\ Idle

\* calculate_likelihood(total_words, desired_matches, undesired_matches) is called
Calculated(total_words, desired_matches, undesired_matches) ==
  /\ op' = "calculate_likelihood"
  /\ pc' = "returned"
  /\ out' = calculate_likelihood(total_words, desired_matches, undesired_matches)
  /\ invoked' = Append(invoked, [h |-> "calculate_likelihood",
                                 args |-> <<total_words, desired_matches, undesired_matches>>,
                                 o |-> out'])
  /\ UNCHANGED <<inputs, arg>>

CallCalculateLikelihood ==
  /\ op = "idle"
  /\ \E total_words \in TotalWords, desired_matches \in Matches, undesired_matches \in Matches :
       Calculated(total_words, desired_matches, undesired_matches)

CallCalculateLikelihoodAgain ==
  /\ op = "calculate_likelihood"
  /\ Len(invoked) = 1
  /\ \E desired_matches \in Matches :
       Calculated(invoked[1].args[1], desired_matches, invoked[1].args[3])

LikelihoodNext == CallCalculateLikelihood \/ CallCalculateLikelihoodAgain

LikelihoodSpec == LikelihoodInit /\ [][LikelihoodNext]_vars

(***************************************************************************)
(* A RelevanceCalculator: called, or its calculate_wordscore called, once  *)
(* and once more.                                                          *)
(***************************************************************************)
WordscoreInit == NoDocument /\ NoTokens /\ calculator \in Calculators /\ NoRun /\ Idle

\* a method of the calculator has ended with outcome o; calculate_wordscore,
\* when it was reached with this likelihood, has set self.implicature_score
MethodEnded(name, likelihood, reached, o) ==
  /\ op' = name
  /\ pc' = IF o.k = "raise" THEN "raised" ELSE "returned"
  /\ out' = o
  /\ invoked' = Append(invoked, [h |-> name, args |-> <<likelihood>>, self |-> calculator,
                                 o |-> o])
  /\ calculator' = IF reached
                   THEN [calculator EXCEPT
                           !.implicature_score = implicature_score_after(calculator, likelihood)]
                   ELSE calculator
  /\ UNCHANGED <<metadata, stem, preprint, network, results, target, word_set,
                 search_terms, files, arg>>

CallRelevanceCalculator ==
  /\ Len(invoked) < 2
  /\ op \in {"idle", "__call__"}
  /\ IF call(calculator).k = "raise"
     THEN MethodEnded("__call__", FloatNone, FALSE, call(calculator))
     ELSE MethodEnded("__call__", unweighted_wordscore(calculator), TRUE, call(calculator))

CallCalculateWordscore ==
  /\ Len(invoked) < 2
  /\ op \in {"idle", "calculate_wordscore"}
  /\ \E likelihood \in Scores :
       MethodEnded("calculate_wordscore", likelihood, TRUE,
                   Ret(calculate_wordscore(calculator, likelihood), <<>>))

WordscoreNext == CallRelevanceCalculator \/ CallCalculateWordscore

WordscoreSpec == WordscoreInit /\ [][WordscoreNext]_vars

\* how often a word occurs in the tokens, and where first
Occurrences(word) == Cardinality({i \in 1..Len(target) : target[i] = word})

FirstAt(word) == CHOOSE i \in 1..Len(target) : target[i] = word /\ \A j \in 1..(i - 1) : target[j] # word

Matching == {word \in word_set : Occurrences(word) > 0}

Listed == {out.v.frequency_dist[k][1] : k \in 1..Len(out.v.frequency_dist)}

\* C13: match_terms returns at most 3 entries (3, or every matching word when
\* there are fewer), each a different word of the word set with the number of
\* its occurrences in the tokens, and term_count is the number of tokens that
\* are one of the listed words.
C13_TopThreeOnly ==
  op = "match_terms" =>
    LET dist == out.v.frequency_dist
    IN /\ out.k = "ret"
       /\ Len(dist) <= 3
       /\ Len(dist) = (IF Cardinality(Matching) < 3 THEN Cardinality(Matching) ELSE 3)
       /\ \A k \in 1..Len(dist) :
            /\ dist[k][1] \in word_set
            /\ dist[k][2] = Occurrences(dist[k][1])
            /\ \A j \in 1..Len(dist) : dist[j][1] = dist[k][1] => j = k
       /\ out.v.term_count = Cardinality({i \in 1..Len(target) : target[i] \in Listed})

\* four different words of the set occur in the tokens, so term_count leaves
\* the occurrences of one of them out
C13_Witness ==
  /\ op = "match_terms"
  /\ Cardinality(Matching) = 4
  /\ Len(out.v.frequency_dist) = 3
  /\ out.v.term_count < Cardinality({i \in 1..Len(target) : target[i] \in word_set})

\* C14: the entries are in non-increasing order of count, entries of equal
\* count in the order of their first occurrence in the tokens, and a matching
\* word that is not listed has a smaller count than every entry, or the same
\* count and a later first occurrence.
C14_MostFrequentFirst ==
  op = "match_terms" =>
    LET dist == out.v.frequency_dist
    IN /\ \A j, k \in 1..Len(dist) :
            j < k => \/ dist[j][2] > dist[k][2]
                     \/ dist[j][2] = dist[k][2] /\ FirstAt(dist[j][1]) < FirstAt(dist[k][1])
       /\ \A word \in Matching \ Listed : \A k \in 1..Len(dist) :
            \/ dist[k][2] > Occurrences(word)
            \/ dist[k][2] = Occurrences(word) /\ FirstAt(dist[k][1]) < FirstAt(word)

\* a listed word and an unlisted one occur equally often, and a word listed
\* before another of the same count is not the smaller one by name
C14_Witness ==
  /\ op = "match_terms"
  /\ target = <<"d", "c", "b", "b", "a">>
  /\ word_set = Words
  /\ out.v.frequency_dist = << <<"b", 2>>, <<"d", 1>>, <<"c", 1>> >>

\* the arguments of the last call of calculate_likelihood
LastArgs == invoked[Len(invoked)].args

\* C15: calculate_likelihood returns 0.0, and does not raise, when
\* total_words <= 0 or desired_matches < 0 or undesired_matches < 0.
C15_DegenerateIsZero ==
  (op = "calculate_likelihood"
   /\ (LastArgs[1] <= 0 \/ LastArgs[2] < 0 \/ LastArgs[3] < 0))
  => out.k = "ret" /\ out.v.num = 0

\* no words at all: the quotient is not taken, and the score is 0.0
C15_Witness ==
  /\ op = "calculate_likelihood"
  /\ LastArgs = <<0, 1, 1>>
  /\ out.k = "ret"
  /\ out.v.num = 0

\* C16: calculate_likelihood returns a value in [0, 1] for every triple, also
\* when desired_matches + undesired_matches > total_words.
C16_ScoreInUnitInterval ==
  op = "calculate_likelihood" =>
    /\ out.k = "ret"
    /\ 0 <= out.v.num
    /\ out.v.num <= out.v.den

\* more undesired matches than words: the quotient is negative, the score 0.0
C16_Witness ==
  /\ op = "calculate_likelihood"
  /\ LastArgs = <<1, 0, 2>>
  /\ out.v.num = 0

\* 4 * total_words * raw, with raw the quotient the specification gives
FourTimesRawTimesTotal == 4 * LastArgs[2] - LastArgs[3] + 2 * (LastArgs[1] - LastArgs[2] - LastArgs[3])

\* C17: for total_words > 0 and non-negative match counts the score is
\* (desired * 1.0 + undesired * (-0.25) + other * 0.5) / total_words, clamped
\* to [0, 1]; it is 0.5 for no matches of either kind.
C17_WeightedFormula ==
  (op = "calculate_likelihood" /\ LastArgs[1] > 0 /\ LastArgs[2] >= 0 /\ LastArgs[3] >= 0)
  => /\ out.k = "ret"
     /\ FourTimesRawTimesTotal < 0 => out.v.num = 0
     /\ FourTimesRawTimesTotal > 4 * LastArgs[1] => out.v.num = out.v.den
     /\ (0 <= FourTimesRawTimesTotal /\ FourTimesRawTimesTotal <= 4 * LastArgs[1])
          => out.v.num * 4 * LastArgs[1] = out.v.den * FourTimesRawTimesTotal
     /\ (LastArgs[2] = 0 /\ LastArgs[3] = 0) => (out.v.num = 1 /\ out.v.den = 2)

\* three words, none of them a match: 0.5
C17_Witness ==
  /\ op = "calculate_likelihood"
  /\ LastArgs = <<3, 0, 0>>
  /\ out.v.num = 1
  /\ out.v.den = 2

\* C18: with total_words > 0 and undesired_matches >= 0 the same, a call with
\* no fewer desired matches (both non-negative) scores no less.
C18_MonotoneInDesired ==
  (/\ op = "calculate_likelihood"
   /\ Len(invoked) = 2
   /\ invoked[1].args[1] > 0
   /\ invoked[1].args[3] >= 0
   /\ 0 <= invoked[1].args[2]
   /\ invoked[1].args[2] <= invoked[2].args[2])
  => FloatLeq(invoked[1].o.v, invoked[2].o.v)

\* one more desired match, and a greater score
C18_Witness ==
  /\ op = "calculate_likelihood"
  /\ Len(invoked) = 2
  /\ invoked[1].args = <<3, 1, 1>>
  /\ invoked[2].args = <<3, 2, 1>>
  /\ ~FloatLeq(invoked[2].o.v, invoked[1].o.v)

\* the implicature_score the calculator was constructed with
Supplied == invoked[1].self.implicature_score

\* C19: calculate_wordscore(unweighted) is unweighted * 0.85 + implicature_score
\* * 0.15 for a calculator constructed with an implicature_score, and
\* unweighted itself for one constructed with none; 0.645 for 0.6 and 0.9.
C19_WordscoreBlending ==
  op = "calculate_wordscore" =>
    /\ out.k = "ret"
    /\ Supplied.tag = "None" => out.v = LastArgs[1]
    /\ Supplied.tag # "None" =>
         out.v = FloatAdd(FloatMul(LastArgs[1], Float(85, 100)),
                          FloatMul(Supplied, Float(15, 100)))
    /\ (Supplied = Float(9, 10) /\ LastArgs[1] = Float(3, 5)) => out.v = Float(129, 200)

\* C20: a RelevanceCalculator with total_length > 0, 0 <= target_count <=
\* total_length and bycatch_count >= 0, when called, returns a Wordscore and
\* does not raise.
C20_PositiveLengthSuffices ==
  (/\ op = "__call__"
   /\ calculator.total_length > 0
   /\ 0 <= calculator.target_count
   /\ calculator.target_count <= calculator.total_length
   /\ calculator.bycatch_count >= 0)
  => out.k = "ret" /\ out.v.tag = "Wordscore"

\* C21: calling a RelevanceCalculator leaves its four fields as they were
\* constructed, and every call on it returns the same Wordscore.
C21_CallIsSideEffectFree ==
  op = "__call__" =>
    /\ calculator = invoked[1].self
    /\ \A i \in 1..Len(invoked) : invoked[i].o = invoked[1].o

\* the result URLs a search with the default num_results hands over
Examined == search(preprint, num_results_default, results)

\* C22: when examining a result URL raises, find_identifier_in_google_search
\* does not: it goes on with the remaining URLs and returns what they yield.
C22_BadResultIsSkipped ==
  (/\ op = "find_identifier_in_google_search"
   /\ \E i \in 1..Len(Examined) : find_identifier_in_text(Examined[i], network).k = "raise")
  => out.k = "ret"

\* C23: find_identifier_in_metadata, when the value it takes holds a DOI
\* amid other text, returns the DOI alone, typed by the key of the value.
C23_EmbeddedDoiIsExtracted ==
  (/\ op = "find_identifier_in_metadata"
   /\ Len(metadata) = 1
   /\ metadata[1] = <<"Title", TextBoth>>)
  => /\ out.k = "ret"
     /\ out.v.tag = "DOIFromPDFResult"
     /\ out.v.identifier = TextDoi
     /\ out.v.identifier_type = "Title"

\* the positions of the metadata items the scan searches, and of those among
\* them in which a pattern matches
Scanned == {i \in 1..Len(metadata) : metadata[i][1] # "/wps-journaldoi"}

ScanHits == {i \in Scanned : ~NoHit(metadata[i][2])}

\* C25: find_identifier_in_pdf_info returns None when no value it searches
\* yields an identifier, and otherwise the result of the first value, in the
\* mapping's order and leaving "/wps-journaldoi" out, that yields one.
C25_MetadataValueScan ==
  op = "find_identifier_in_pdf_info" =>
    /\ out.k = "ret"
    /\ ScanHits = {} => out.v = PyNone
    /\ ScanHits # {} =>
         /\ out.v.tag = "DOIFromPDFResult"
         /\ Len(out.v.identifier) > 0
         /\ \A n \in 1..Len(out.eff) :
              out.eff[n].e = "validate" =>
                \E i \in Scanned : i <= (CHOOSE h \in ScanHits : \A j \in ScanHits : h <= j)
                                    /\ Hit(out.eff[n].id_type, metadata[i][2])

\* C26: the web-search fallback makes one search, for the first
\* num_characters_default characters of the text and num_results_default
\* results, returns None when no result URL yields an identifier, and
\* otherwise the result of the first URL that yields one.
C26_WebSearchFallback ==
  (op = "find_identifier_by_googling_first_n_characters_in_pdf" /\ ~Blank(preprint))
  => /\ out.k = "ret"
     /\ Cardinality({n \in 1..Len(out.eff) : out.eff[n].e = "search"}) = 1
     /\ \A n \in 1..Len(out.eff) :
          out.eff[n].e = "search" =>
            /\ out.eff[n].stop = num_results_default
            /\ Len(out.eff[n].text) <= num_characters_default
     /\ (\A i \in 1..Len(Examined) : NoHit(Examined[i])) => out.v = PyNone
     /\ (\E i \in 1..Len(Examined) : ~NoHit(Examined[i]))
          => out.v.tag = "DOIFromPDFResult" /\ Len(out.v.identifier) > 0

\* the tokens joined again with one space between two of them
RECURSIVE Joined(_)
Joined(tokens) ==
  IF Len(tokens) = 0 THEN <<>>
  ELSE IF Len(tokens) = 1 THEN tokens[1]
  ELSE tokens[1] \o <<" ">> \o Joined(Tail(tokens))

Cleaned == lower(strip(preprint))

\* C27: the tokens of format_manuscript are the pieces of the stripped,
\* lower-cased text between its single spaces: no token holds a space, a tab
\* or a newline inside the text stays inside its token, two adjacent spaces
\* have an empty token between them, and the tokens number one more than the
\* spaces, which is one for an empty document.
C27_SplitOnSingleSpace ==
  op = "format_manuscript" =>
    /\ out.k = "ret"
    /\ \A n \in 1..Len(out.v.items) : \A i \in 1..Len(out.v.items[n]) : out.v.items[n][i] # " "
    /\ Joined(out.v.items) = Cleaned
    /\ Len(out.v.items) = Cardinality({i \in 1..Len(Cleaned) : Cleaned[i] = " "}) + 1
    /\ Cardinality({n \in 1..Len(out.v.items) : out.v.items[n] = <<>>})
         = Cardinality({i \in 1..(Len(Cleaned) - 1) : Cleaned[i] = " " /\ Cleaned[i + 1] = " "})
           + (IF Cleaned = <<>> THEN 1 ELSE 0)

\* a text with a tab inside its first token and an empty token between its
\* two spaces
C27_Witness ==
  /\ op = "format_manuscript"
  /\ preprint = <<"a", "\t", " ", " ", "B">>
  /\ out.v.items = << <<"a", "\t">>, <<>>, <<"b">> >>

\* C28: obtain on a PDF in which the cascade finds nothing (the document of
\* C3) does not raise: it returns a DocumentResult whose doi_from_pdf is None
\* or empty, with the counts and the score of the text.
C28_ObtainWithoutIdentifier ==
  (/\ op = "obtain"
   /\ arg = "pdf"
   /\ \A i \in 1..Len(metadata) :
        /\ \A k \in 1..Len(priority_keys) :
             metadata[i][1] = priority_keys[k] => Len(metadata[i][2]) = 0
        /\ NoHit(metadata[i][2])
   /\ NoHit(TitleOf(metadata, stem))
   /\ NoHit(preprint)
   /\ \A i \in 1..Len(results) : NoHit(results[i]))
  => /\ out.k = "ret"
     /\ out.v.tag = "DocumentResult"
     /\ out.v.doi_from_pdf = PyNone \/ Len(out.v.doi_from_pdf.str) = 0
     /\ out.v.total_word_count = Len(format_manuscript(preprint))
     /\ out.v.wordscore = calculate_likelihood(out.v.total_word_count, out.v.matching_terms,
                                                out.v.bycatch_terms).v

\* what was typed at the n-th prompt
Typed(n) == invoked[n].args[1]

\* C24: read_factory returns only on an entry that is a key of SCISCRAPERS,
\* and returns the scraper of that key; every entry before it was unknown,
\* each unknown entry is logged once, in order, and is followed by one more
\* prompt, so a call that has returned has prompted once more than it logged.
C24_PromptUntilKnown ==
  op = "read_factory" =>
    /\ pc \in {"running", "returned"}
    /\ \A n \in 1..Len(out.eff) : out.eff[n] = LoggedError(Typed(n))
    /\ \A n \in 1..Len(out.eff) : Typed(n) \notin DOMAIN SCISCRAPERS
    /\ pc = "running" => Len(invoked) = Len(out.eff)
    /\ pc = "returned" =>
         /\ Len(invoked) = Len(out.eff) + 1
         /\ Typed(Len(invoked)) \in DOMAIN SCISCRAPERS
         /\ out.v = SCISCRAPERS[Typed(Len(invoked))]

\* an unknown entry and then "citations": two prompts, one error logged
C24_Witness ==
  /\ op = "read_factory"
  /\ pc = "returned"
  /\ Len(invoked) = 2
  /\ Typed(1) = "lisjdfklsdjlkfjdsklfjsd"
  /\ Typed(2) = "citations"
  /\ out.v = SCISCRAPERS["citations"]
  /\ Len(out.eff) = 1
\* C29 as it reads: for each term in order one call of obtain, followed at
\* once by every item of a generator it returned, by the result itself when
\* it is another value than None, and by nothing for None
RECURSIVE FetchedInOrder(_)
FetchedInOrder(terms) ==
  IF Len(terms) = 0 THEN <<>>
  ELSE LET got == scraper_obtain(Head(terms))
       IN <<Obtained(Head(terms))>>
          \o (IF got.tag = "generator"
              THEN [n \in 1..Len(got.items) |-> Yielded(got.items[n])]
              ELSE IF got.tag = "None" THEN <<>>
              ELSE <<Yielded(got)>>)
          \o FetchedInOrder(Tail(terms))

\* C29: what fetch has done is at any time the beginning of that sequence,
\* up to an item it is suspended at, and all of it once it is exhausted: the
\* terms are obtained in order and once each, and what a term yields is
\* yielded before the next term is obtained.
C29_FetchInOrder ==
  op = "fetch" =>
    /\ Len(invoked) <= Len(FetchedInOrder(search_terms))
    /\ invoked = SubSeq(FetchedInOrder(search_terms), 1, Len(invoked))
    /\ (pc = "suspended" /\ Len(invoked) > 0) => invoked[Len(invoked)].h = "yield"
    /\ pc = "returned" => invoked = FetchedInOrder(search_terms)

\* a generator of two results, then None, then a single result, fetched to
\* the end
C29_Witness ==
  /\ op = "fetch"
  /\ pc = "returned"
  /\ search_terms = <<"two", "none", "one">>
  /\ Len(invoked) = 6
  /\ invoked[6] = Yielded(ScrapeResult(0))

\* the export that is under way or was made last, and the run number of it
RunNumber == Len(invoked)

Exported(n) == invoked[n].args[1]

====
